---- MODULE Spec2Model ----
(***************************************************************************)
(* TreeWalk (src/TreeWalk/app.py): a threaded HTTP server that appends     *)
(* tree observations to data/trees.csv and reads the file back.            *)
(*                                                                         *)
(* Every request is served by its own thread (ThreadingMixIn).  A thread   *)
(* is modelled by a program counter; one action is taken per access to the *)
(* shared state: the clock, csv_lock and the backing file.  The file is a  *)
(* sequence of bytes; a byte is the pair <<owner, k>>, the k-th byte of    *)
(* the line written by owner (0 is the header written by ensure_csv, r is  *)
(* the data row written by request r).                                     *)
(***************************************************************************)
EXTENDS Integers, Sequences, FiniteSets, TLC

\* ---- bounds ------------------------------------------------------------
NReq == 3          \* requests (one handler thread each)
NPost == 2         \* requests of the runs that hold valid POSTs only
MaxTicks == 1      \* millisecond ticks of the clock during the run
MaxFail == 1       \* storage I/O operations that fail during the run

\* ---- program constants -------------------------------------------------
MsPerSec == 1000

Req == 1 .. NReq
PostReq == 1 .. (IF NPost < NReq THEN NPost ELSE NReq)
ApiPath == "/api/trees"
Paths == {ApiPath, "/api/trees/export"}
Methods == {"GET", "POST", "PUT"}
HeaderLine == "id,lat,lon,species,notes,timestamp" \o "\r\n"
HeaderOwner == 0
NoResponse == 0    \* the connection is closed without a status line
Corrupt == -1      \* a line of the file that no writer wrote as a whole

\* ---- JSON values of a request body --------------------------------------
JMissing == [t |-> "missing", n |-> 0, s |-> ""]
JNum(n) == [t |-> "num", n |-> n, s |-> ""]
JStr(s) == [t |-> "str", n |-> 0, s |-> s]

InvalidBody == [j |-> "invalid", lat |-> JMissing, lon |-> JMissing,
                species |-> JMissing, notes |-> JMissing]
ArrayBody == [j |-> "array", lat |-> JMissing, lon |-> JMissing,
              species |-> JMissing, notes |-> JMissing]
Obj(lat, lon, species, notes) ==
    [j |-> "object", lat |-> lat, lon |-> lon, species |-> species, notes |-> notes]

LongNotes == "dead branch over path"

Bodies ==
    { InvalidBody, ArrayBody,
      Obj(JMissing, JNum(2), JMissing, JMissing),
      Obj(JStr("abc"), JNum(2), JMissing, JMissing),
      Obj(JNum(1), JMissing, JStr("Oak"), JMissing),
      Obj(JStr("7"), JNum(2), JMissing, JMissing),
      Obj(JNum(1), JNum(2), JStr("Oak"), JStr(LongNotes)) }

NoBody == [j |-> "none", lat |-> JMissing, lon |-> JMissing,
           species |-> JMissing, notes |-> JMissing]
NoReq == [method |-> "", path |-> "", body |-> NoBody]
NoRow == [id |-> 0, lat |-> 0, lon |-> 0, species |-> "", notes |-> "", timestamp |-> 0]
NoResult == [fields |-> Corrupt, rows |-> << >>]

VARIABLES
    clock,         \* wall clock, milliseconds
    ticks,         \* ticks taken so far
    exists,        \* os.path.exists(CSV_PATH)
    file,          \* bytes of CSV_PATH
    lock,          \* csv_lock: 0 when free, else the request holding it
    pc,            \* position of each handler thread
    req,           \* the request each thread serves
    row,           \* the row built by handle_post_tree
    status,        \* status of the response sent, NoResponse if none
    result,        \* the list handle_get_trees sends
    ackedAtStart,  \* POSTs already answered 201 when a GET started
    failed         \* requests whose storage operation raised OSError

vars == <<clock, ticks, exists, file, lock, pc, req, row, status, result,
          ackedAtStart, failed>>

\* ---- pure functions ------------------------------------------------------

\* float(v) of handle_post_tree: a record [ok, val]
NumericStrings == {"7"}
StrToNum(s) == IF s = "7" THEN 7 ELSE 0
ToFloat(v) ==
    CASE v.t = "num" -> [ok |-> TRUE, val |-> v.n]
      [] v.t = "str" /\ v.s \in NumericStrings -> [ok |-> TRUE, val |-> StrToNum(v.s)]
      [] OTHER -> [ok |-> FALSE, val |-> 0]

\* data.get(key, "")
GetOrEmpty(v) == IF v.t = "missing" THEN "" ELSE v.s

\* the validation of handle_post_tree: the status it answers before any
\* access to the store, or 201 when the body passes
ParseStatus(b) ==
    CASE b.j = "invalid" -> 400
      [] b.j # "object" -> NoResponse
      [] ~ToFloat(b.lat).ok \/ ~ToFloat(b.lon).ok -> 400
      [] OTHER -> 201

\* str() of a float with an integral value, as csv.writer writes it
FloatRepr(n) == ToString(n) \o ".0"

\* the line csv.writer writes for a row (the field values of Bodies hold no
\* comma, quote or newline, so no field is quoted)
RowLine(w) ==
    ToString(w.id) \o "," \o FloatRepr(w.lat) \o "," \o FloatRepr(w.lon) \o ","
    \o w.species \o "," \o w.notes \o "," \o ToString(w.timestamp) \o "\r\n"

LineLen(o) == IF o = HeaderOwner THEN Len(HeaderLine) ELSE Len(RowLine(row[o]))

Cells(o) == [k \in 1 .. LineLen(o) |-> <<o, k>>]

\* a write of data by a handle opened with "w": at offset 0, over what is there
WriteAtStart(f, data) ==
    [i \in 1 .. (IF Len(f) > Len(data) THEN Len(f) ELSE Len(data)) |->
        IF i <= Len(data) THEN data[i] ELSE f[i]]

\* the same write by a handle opened with "w": the file is truncated first
WriteTruncating(f, data) == data
\* a write of data by a handle opened with "a": at the end of the file
WriteAtEnd(f, data) == f \o data

\* the last two bytes of every line written are "\r\n"
IsTerminator(c) == c[2] >= LineLen(c[1]) - 1

\* the non-empty lines of the file, in file order: the maximal runs of bytes
\* that hold no line terminator
LineStarts(f) ==
    {i \in 1 .. Len(f) : ~IsTerminator(f[i]) /\ (i = 1 \/ IsTerminator(f[i - 1]))}
LineEnd(f, i) ==
    CHOOSE j \in i .. Len(f) :
        /\ \A k \in i .. j : ~IsTerminator(f[k])
        /\ (j = Len(f) \/ IsTerminator(f[j + 1]))
SplitLines(f) ==
    LET S == LineStarts(f)
        Nth(n) == CHOOSE i \in S : Cardinality({t \in S : t <= i}) = n
    IN [n \in 1 .. Cardinality(S) |-> SubSeq(f, Nth(n), LineEnd(f, Nth(n)))]

\* the writer whose whole line this is, or Corrupt
ParseLine(l) ==
    LET o == l[1][1] IN
    IF Len(l) = LineLen(o) - 2 /\ \A k \in 1 .. Len(l) : l[k] = <<o, k>>
    THEN o ELSE Corrupt

\* list(csv.DictReader(f)): the first non-empty line gives the field names
ReadAll(f) ==
    LET ls == SplitLines(f) IN
    IF ls = << >> THEN [fields |-> HeaderOwner, rows |-> << >>]
    ELSE [fields |-> ParseLine(ls[1]),
          rows |-> [i \in 1 .. Len(ls) - 1 |-> ParseLine(ls[i + 1])]]

Range(s) == {s[i] : i \in 1 .. Len(s)}

\* ---- initial state -------------------------------------------------------
\* data/trees.csv is either absent (RequestHandler served without run_server,
\* or the data directory removed before the requests arrive: every handler
\* calls ensure_csv for this case) or holds the header run_server's ensure_csv
\* wrote.
Init ==
    /\ clock = MsPerSec - 1
    /\ ticks = 0
    /\ exists \in BOOLEAN
    /\ file = IF exists THEN Cells(HeaderOwner) ELSE << >>
    /\ lock = 0
    /\ pc = [r \in Req |-> "new"]
    /\ req = [r \in Req |-> NoReq]
    /\ row = [r \in Req |-> NoRow]
    /\ status = [r \in Req |-> NoResponse]
    /\ result = [r \in Req |-> NoResult]
    /\ ackedAtStart = [r \in Req |-> {}]
    /\ failed = {}

\* ---- actions ---------------------------------------------------------------
Finish(r, st) ==
    /\ pc' = [pc EXCEPT ![r] = "done"]
    /\ status' = [status EXCEPT ![r] = st]

Tick ==
    /\ ticks < MaxTicks
    /\ ticks' = ticks + 1
    /\ clock' = clock + 1
    /\ UNCHANGED <<exists, file, lock, pc, req, row, status, result, ackedAtStart, failed>>

\* a method without a do_ method: BaseHTTPRequestHandler answers 501
UnsupportedMethod(r) ==
    /\ pc[r] = "new"
    /\ \E m \in Methods \ {"GET", "POST"}, p \in Paths :
          req' = [req EXCEPT ![r] = [method |-> m, path |-> p, body |-> NoBody]]
    /\ Finish(r, 501)
    /\ UNCHANGED <<clock, ticks, exists, file, lock, row, result, ackedAtStart, failed>>

\* do_GET, path other than /api/trees: the static handler looks the path up
\* under STATIC_DIR, which holds no api/trees directory, and answers 404
StaticGet(r) ==
    /\ pc[r] = "new"
    /\ \E p \in Paths \ {ApiPath} :
          req' = [req EXCEPT ![r] = [method |-> "GET", path |-> p, body |-> NoBody]]
    /\ Finish(r, 404)
    /\ UNCHANGED <<clock, ticks, exists, file, lock, row, result, ackedAtStart, failed>>

\* do_POST, path other than /api/trees
PostNotFound(r) ==
    /\ pc[r] = "new"
    /\ \E p \in Paths \ {ApiPath} :
          req' = [req EXCEPT ![r] = [method |-> "POST", path |-> p, body |-> NoBody]]
    /\ Finish(r, 404)
    /\ UNCHANGED <<clock, ticks, exists, file, lock, row, result, ackedAtStart, failed>>

\* handle_post_tree, a body that does not pass the validation
PostRejected(r) ==
    /\ pc[r] = "new"
    /\ \E b \in Bodies :
          /\ ParseStatus(b) # 201
          /\ req' = [req EXCEPT ![r] = [method |-> "POST", path |-> ApiPath, body |-> b]]
          /\ Finish(r, ParseStatus(b))
    /\ UNCHANGED <<clock, ticks, exists, file, lock, row, result, ackedAtStart, failed>>

\* handle_post_tree, a body that passes the validation
PostAccepted(r) ==
    /\ pc[r] = "new"
    /\ \E b \in Bodies :
          /\ ParseStatus(b) = 201
          /\ req' = [req EXCEPT ![r] = [method |-> "POST", path |-> ApiPath, body |-> b]]
    /\ pc' = [pc EXCEPT ![r] = "clock"]
    /\ UNCHANGED <<clock, ticks, exists, file, lock, row, status, result, ackedAtStart, failed>>

\* tree_id and timestamp are read from the clock (the two utcnow() calls are
\* taken as one reading; no property depends on timestamp); the row is built
TreeId(c) == c
Timestamp(c) == c \div MsPerSec
ReadClock(r) ==
    /\ pc[r] = "clock"
    /\ row' = [row EXCEPT ![r] =
          [id |-> TreeId(clock), lat |-> ToFloat(req[r].body.lat).val,
           lon |-> ToFloat(req[r].body.lon).val,
           species |-> GetOrEmpty(req[r].body.species),
           notes |-> GetOrEmpty(req[r].body.notes),
           timestamp |-> Timestamp(clock)]]
    /\ pc' = [pc EXCEPT ![r] = "acquire"]
    /\ UNCHANGED <<clock, ticks, exists, file, lock, req, status, result, ackedAtStart, failed>>

\* an acquire that does not wait for the lock to be free
CanAcquireHeld(r) == TRUE
\* csv_lock.acquire()
CanAcquire(r) == lock = 0
Acquire(r) ==
    /\ pc[r] = "acquire"
    /\ CanAcquire(r)
    /\ lock' = r
    /\ pc' = [pc EXCEPT ![r] = "ens_check"]
    /\ UNCHANGED <<clock, ticks, exists, file, req, row, status, result, ackedAtStart, failed>>

\* handle_get_trees starts: it calls ensure_csv without the lock
GetTrees(r) ==
    /\ pc[r] = "new"
    /\ req' = [req EXCEPT ![r] = [method |-> "GET", path |-> ApiPath, body |-> NoBody]]
    /\ ackedAtStart' = [ackedAtStart EXCEPT ![r] = {p \in Req : status[p] = 201}]
    /\ pc' = [pc EXCEPT ![r] = "ens_check"]
    /\ UNCHANGED <<clock, ticks, exists, file, lock, row, status, result, failed>>

\* where ensure_csv returns to
AfterEnsure(r) == IF req[r].method = "GET" THEN "read" ELSE "append"

\* ensure_csv: os.path.exists(CSV_PATH)
EnsureCheck(r) ==
    /\ pc[r] = "ens_check"
    /\ pc' = [pc EXCEPT ![r] = IF exists THEN AfterEnsure(r) ELSE "ens_open"]
    /\ UNCHANGED <<clock, ticks, exists, file, lock, req, row, status, result, ackedAtStart, failed>>

\* ensure_csv: open(CSV_PATH, "w") creates the file or truncates it
EnsureOpen(r) ==
    /\ pc[r] = "ens_open"
    /\ exists' = TRUE
    /\ file' = << >>
    /\ pc' = [pc EXCEPT ![r] = "ens_write"]
    /\ UNCHANGED <<clock, ticks, lock, req, row, status, result, ackedAtStart, failed>>

\* ensure_csv: the header is written when the with block closes the handle
EnsureWrite(r) ==
    /\ pc[r] = "ens_write"
    /\ file' = WriteAtStart(file, Cells(HeaderOwner))
    /\ pc' = [pc EXCEPT ![r] = AfterEnsure(r)]
    /\ UNCHANGED <<clock, ticks, exists, lock, req, row, status, result, ackedAtStart, failed>>

\* handle_post_tree: open(CSV_PATH, "a"), writerow(row), close
AppendRow(r) ==
    /\ pc[r] = "append"
    /\ exists' = TRUE
    /\ file' = WriteAtEnd(file, Cells(r))
    /\ pc' = [pc EXCEPT ![r] = "release"]
    /\ UNCHANGED <<clock, ticks, lock, req, row, status, result, ackedAtStart, failed>>

\* finally: csv_lock.release()
Release(r) ==
    /\ pc[r] = "release"
    /\ lock' = 0
    /\ pc' = [pc EXCEPT ![r] = "respond"]
    /\ UNCHANGED <<clock, ticks, exists, file, req, row, status, result, ackedAtStart, failed>>

\* send_json({"status": "success", "id": tree_id}, status=201)
Respond(r) ==
    /\ pc[r] = "respond"
    /\ Finish(r, 201)
    /\ UNCHANGED <<clock, ticks, exists, file, lock, req, row, result, ackedAtStart, failed>>

\* handle_get_trees: open, list(csv.DictReader(f)), send_json(trees).  The
\* file is smaller than one read buffer: the reader sees one snapshot of it.
ReadTrees(r) ==
    /\ pc[r] = "read"
    /\ result' = [result EXCEPT ![r] = ReadAll(file)]
    /\ Finish(r, 200)
    /\ UNCHANGED <<clock, ticks, exists, file, lock, req, row, ackedAtStart, failed>>

\* A storage operation raises OSError.  Nothing in app.py catches it: the
\* finally clause of handle_post_tree releases the lock, the exception
\* leaves the handler and the connection is closed without a response.
\* The failing operation itself changes nothing in the file.
IOPcs == {"ens_check", "ens_open", "ens_write", "append", "read"}
SectionPcs == {"ens_check", "ens_open", "ens_write", "append", "release"}
InSection(r) == req[r].method = "POST" /\ pc[r] \in SectionPcs
\* the release left out of the error path (no finally clause)
LockKeptAfterError(r) == lock
LockAfterError(r) == IF lock = r THEN 0 ELSE lock
IOFail(r) ==
    /\ pc[r] \in IOPcs
    /\ Cardinality(failed) < MaxFail
    /\ failed' = failed \cup {r}
    /\ lock' = LockAfterError(r)
    /\ Finish(r, NoResponse)
    /\ UNCHANGED <<clock, ticks, exists, file, req, row, result, ackedAtStart>>

Step(r) ==
    \/ UnsupportedMethod(r)
    \/ StaticGet(r)
    \/ PostNotFound(r)
    \/ PostRejected(r)
    \/ PostAccepted(r)
    \/ ReadClock(r)
    \/ Acquire(r)
    \/ GetTrees(r)
    \/ EnsureCheck(r)
    \/ EnsureOpen(r)
    \/ EnsureWrite(r)
    \/ AppendRow(r)
    \/ Release(r)
    \/ Respond(r)
    \/ ReadTrees(r)
    \/ IOFail(r)

Next == Tick \/ \E r \in Req : Step(r)

Spec == Init /\ [][Next]_vars

\* ---- the server under valid POST /api/trees requests only -----------------
PostStep(r) ==
    \/ PostAccepted(r)
    \/ ReadClock(r)
    \/ Acquire(r)
    \/ EnsureCheck(r)
    \/ EnsureOpen(r)
    \/ EnsureWrite(r)
    \/ AppendRow(r)
    \/ Release(r)
    \/ Respond(r)
    \/ IOFail(r)

NextPost == Tick \/ \E r \in PostReq : PostStep(r)

SpecPost == Init /\ [][NextPost]_vars

\* the handler threads are scheduled fairly by the operating system
FairSpecPost == SpecPost /\ \A r \in PostReq : WF_vars(PostStep(r))

\* ---- properties ------------------------------------------------------------

IsGet(r) == req[r].method = "GET" /\ req[r].path = ApiPath
IsPost(r) == req[r].method = "POST" /\ req[r].path = ApiPath
ValidBody(b) == b.j = "object" /\ ToFloat(b.lat).ok /\ ToFloat(b.lon).ok
Answered(r) == pc[r] = "done"
\* the POSTs whose row has been written to the file
Inserted == {r \in Req : IsPost(r) /\ (pc[r] \in {"release", "respond"} \/ status[r] = 201)}

RECURSIVE Concat(_)
Concat(os) == IF os = << >> THEN << >> ELSE Cells(os[1]) \o Concat(Tail(os))

\* C1: once all concurrent valid POSTs are answered 201, the file is the
\* header followed by exactly one whole row per request, byte for byte.
C1_AllRowsStored ==
    (\A r \in PostReq : Answered(r) /\ status[r] = 201) =>
        LET rows == ReadAll(file).rows IN
        /\ exists
        /\ Len(rows) = Cardinality(PostReq)
        /\ Range(rows) = PostReq
        /\ file = Concat(<<HeaderOwner>> \o rows)

\* all POSTs answered 201 after running concurrently: the one that arrived
\* first in id order is not the first in the file
C1_Witness ==
    /\ \A r \in PostReq : Answered(r) /\ status[r] = 201
    /\ ReadAll(file).rows # << >>
    /\ ReadAll(file).rows[1] # 1

\* C8: at most one handler is between csv_lock.acquire() and
\* csv_lock.release(), and it is the one the lock records.
C8_MutualExclusion ==
    /\ Cardinality({r \in Req : InSection(r)}) <= 1
    /\ \A r \in Req : InSection(r) => lock = r

\* one POST is inside the section while another waits for the lock
C8_Witness ==
    \E r, q \in Req : r # q /\ InSection(r) /\ pc[r] = "append" /\ pc[q] = "acquire"

\* C10: the lock is never held by a handler that has left the section, also
\* after an I/O error, and every POST waiting for the lock acquires it.
C10_LockReleased ==
    /\ [](\A r \in Req : lock = r => InSection(r))
    /\ \A r \in Req : (pc[r] = "acquire") ~> (lock = r)

\* a POST failed with an I/O error inside the section and another POST
\* holds the lock afterwards
C10_Witness ==
    \E r, q \in Req : r # q /\ r \in failed /\ IsPost(r) /\ Answered(r) /\ lock = q

\* C2: no two POSTs answered 201 carry the same id, and no two rows of the
\* file have the same id.
C2_DistinctIds ==
    /\ \A p, q \in Req :
          (p # q /\ IsPost(p) /\ IsPost(q) /\ status[p] = 201 /\ status[q] = 201)
              => row[p].id # row[q].id
    /\ LET rows == ReadAll(file).rows IN
       \A i, j \in 1 .. Len(rows) :
          (i # j /\ rows[i] \in Req /\ rows[j] \in Req) => row[rows[i]].id # row[rows[j]].id

\* C3: a GET that started after a POST was answered 201 returns the row of
\* that POST under the header's field names.
C3_AckedRowReturned ==
    \A g \in Req :
        (IsGet(g) /\ Answered(g) /\ status[g] = 200) =>
            \A p \in ackedAtStart[g] :
                /\ result[g].fields = HeaderOwner
                /\ p \in Range(result[g].rows)

\* C4: a POST /api/trees whose body is not an object with numeric-coercible
\* lat and lon is answered 400, and it never holds the lock.
C4_RejectedWith400 ==
    \A r \in Req :
        (IsPost(r) /\ req[r].body.j # "none" /\ ~ValidBody(req[r].body)) =>
            /\ lock # r
            /\ row[r] = NoRow
            /\ Answered(r) => status[r] = 400

\* C5: a request under the /api/trees prefix that is not GET or POST of
\* exactly /api/trees is answered 404 and does not touch the file.
C5_NotFound ==
    \A r \in Req :
        (Answered(r) /\ ~IsGet(r) /\ ~IsPost(r)) =>
            /\ status[r] = 404
            /\ result[r] = NoResult
            /\ row[r] = NoRow

\* C6: a request whose storage operation failed is answered with a 5xx
\* status.
C6_IOErrorAnswered5xx ==
    \A r \in failed : Answered(r) /\ status[r] >= 500 /\ status[r] <= 599

\* C7: whenever the file exists its first line is the header, and a GET on
\* a store without inserts returns an empty array.
HeaderFirst ==
    /\ Len(file) >= Len(HeaderLine)
    /\ SubSeq(file, 1, Len(HeaderLine)) = Cells(HeaderOwner)
C7_HeaderFirst ==
    /\ exists => HeaderFirst
    /\ \A g \in Req :
          (IsGet(g) /\ Answered(g) /\ status[g] = 200 /\ Inserted = {})
              => result[g].rows = << >>

\* C9: when no two POSTs read the same millisecond, the ids of the rows of
\* the file increase strictly in file order.
ClockRead(r) == IsPost(r) /\ row[r] # NoRow
C9_IdsIncreaseInFile ==
    (\A p, q \in Req : (p # q /\ ClockRead(p) /\ ClockRead(q)) => row[p].id # row[q].id) =>
        LET rows == ReadAll(file).rows IN
        \A i, j \in 1 .. Len(rows) :
            (i < j /\ rows[i] \in Req /\ rows[j] \in Req) => row[rows[i]].id < row[rows[j]].id

====
